---- MODULE Spec2Model ----
(***************************************************************************)
(* The chatbot backend of backend/app/main.py: the in-memory session store *)
(* chat_sessions and the HTTP handlers that create, read, delete, list and *)
(* sweep sessions and run one chat turn against the completion provider.   *)
(*                                                                         *)
(* Python values are modelled as follows.                                  *)
(*   - Optional[T]: << >> is None, <<v>> is the value v.                   *)
(*   - datetime: an integer number of hours; timedelta(hours=h) is h.      *)
(*   - dict: a sequence of [key, value] entries in insertion order.        *)
(*   - SessionInfo objects live in heap, addressed by a reference; the     *)
(*     dict's values and the handlers' local variables hold references, so *)
(*     that `session = chat_sessions[id]` aliases the stored object.       *)
(*   - uuid.uuid4(): the n-th call returns "uuid-n" (no collisions).       *)
(*   - datetime.now(): any reading not before the previous one.            *)
(***************************************************************************)
EXTENDS Integers, Sequences, FiniteSets, TLC

VARIABLES
    chat_sessions,  \* the dict chat_sessions: a sequence of [key, value] entries
    heap,           \* reference -> SessionInfo object, for every live object
    clock,          \* the latest reading of datetime.now()
    uuids,          \* the number of uuid.uuid4() calls made so far
    request,        \* the request handled last: its method and addressing parameters
    turn,           \* req.messages as the chat handler read them at line 169 or 178
    response,       \* the response to that request: [status, body]
    GROQ_API_KEY,   \* os.getenv("GROQ_API_KEY"): the provider credential, if any
    threads,        \* worker thread -> the handler it runs: its position and locals
    provider_call   \* the arguments of the call at line 186 made for that request

vars == <<chat_sessions, heap, clock, uuids, request, turn, response, GROQ_API_KEY,
          threads, provider_call>>

----------------------------------------------------------------------------
(* Bounds of the model *)

MaxIds == 2      \* uuid.uuid4() is called at most this many times
MaxTime == 1     \* datetime.now() reads 0..MaxTime
MaxStored == 3   \* messages held by all stored sessions together
MaxMsgs == 2     \* messages in one chat request
MaxThreads == 2  \* worker threads that run handlers at the same time

----------------------------------------------------------------------------
(* Python values *)

None == << >>
Some(v) == <<v>>

\* Python truthiness of an Optional[str]: None and "" are falsy.
Truthy(opt) == opt # None /\ opt[1] # ""

Roles == {"system", "user", "assistant"}
Contents == {"a", "b"}

uuid4(n) == "uuid-" \o ToString(n)

\* The strings a client may send as a session identifier.
SessionIds == {uuid4(n) : n \in 1..MaxIds}

DefaultMaxAgeHours == 24

\* Message.__init__: the timestamp defaults to the clock reading `now`.
Message(role, content, timestamp, now) ==
    [role |-> role, content |-> content,
     timestamp |-> IF timestamp = None THEN now ELSE timestamp[1]]

\* The messages of a request body as FastAPI hands them to the handler: one
\* Message per element, each constructed with the next clock reading.
RECURSIVE ParseMessages(_, _)
ParseMessages(raw, reads) ==
    IF raw = << >> THEN << >>
    ELSE <<Message(Head(raw).role, Head(raw).content, Head(raw).timestamp, Head(reads))>>
         \o ParseMessages(Tail(raw), Tail(reads))

SessionInfo(session_id, created_at, last_active, messages) ==
    [session_id |-> session_id, created_at |-> created_at,
     last_active |-> last_active, messages |-> messages]

----------------------------------------------------------------------------
(* dict operations *)

Keys(d) == {d[i].key : i \in 1..Len(d)}

\* key in d
Contains(d, key) == key \in Keys(d)

\* d[key], for a key in d
GetItem(d, key) == d[CHOOSE i \in 1..Len(d) : d[i].key = key].value

\* An assignment that overwrites the newest entry when the key is new.
SetItemOverNewest(d, key, value) ==
    IF d = << >> THEN <<[key |-> key, value |-> value]>>
    ELSE [d EXCEPT ![Len(d)] = [key |-> key, value |-> value]]

\* d[key] = value: a new key goes last, an existing key keeps its place
SetItem(d, key, value) ==
    IF Contains(d, key)
    THEN [i \in 1..Len(d) |-> IF d[i].key = key THEN [key |-> key, value |-> value] ELSE d[i]]
    ELSE Append(d, [key |-> key, value |-> value])

\* A delete that drops the oldest entry, whatever the key.
DelOldest(d, key) == Tail(d)

\* del d[key], for a key in d
DelItem(d, key) == SelectSeq(d, LAMBDA e : e.key # key)

\* The objects still referenced once `roots` are the references held: the
\* interpreter frees an object when its last reference goes.
Collect(hp, roots) == [r \in (DOMAIN hp) \cap roots |-> hp[r]]

Values(d) == {d[i].value : i \in 1..Len(d)}

\* The store as the claims speak of it: session identifier -> SessionInfo.
Store == [key \in Keys(chat_sessions) |-> heap[GetItem(chat_sessions, key)]]

RECURSIVE SumLen(_, _)
SumLen(hp, refs) ==
    IF refs = {} THEN 0
    ELSE LET r == CHOOSE x \in refs : TRUE
         IN Len(hp[r].messages) + SumLen(hp, refs \ {r})

Stored == SumLen(heap, DOMAIN heap)

----------------------------------------------------------------------------
(* Clock readings *)

\* The non-decreasing sequences of n readings, none before lo.
RECURSIVE Readings(_, _)
Readings(lo, n) ==
    IF n = 0 THEN {<< >>}
    ELSE UNION {{<<t>> \o s : s \in Readings(t, n - 1)} : t \in lo..MaxTime}

Last(s, default) == IF s = << >> THEN default ELSE s[Len(s)]

----------------------------------------------------------------------------
(* Requests and responses *)

Req(op, session_id, max_age_hours) ==
    [op |-> op, session_id |-> session_id, max_age_hours |-> max_age_hours]

Ok(body) == [status |-> 200, body |-> body]

\* raise HTTPException(status_code=404, detail="Session not found")
NotFound == [status |-> 404, body |-> [detail |-> "Session not found"]]

\* An exception that leaves the handler: FastAPI answers 500.
InternalServerError == [status |-> 500, body |-> [detail |-> "Internal Server Error"]]

PyNone == [type |-> "NoneType", value |-> ""]
PyStr(s) == [type |-> "str", value |-> s]
PyList == [type |-> "list", value |-> ""]

\* A worker thread that runs no handler. The locals of a running handler:
\* session_id and messages (the request), key (the session identifier the
\* handler works on), session (the reference its variable `session` holds, 0
\* while unbound), now (a clock reading not yet stored), completion, reply,
\* expired_sessions and deleted (the sweep's list, and how far it got). A
\* local is reset once the handler reads it no more.
Idle ==
    [pc |-> "idle", session_id |-> None, messages |-> << >>, key |-> "",
     session |-> 0, now |-> 0, completion |-> PyNone, reply |-> << >>,
     expired_sessions |-> << >>, deleted |-> 0]

ThreadIds == 1..MaxThreads

\* The references the running handlers hold.
Held(th) == {th[t].session : t \in DOMAIN th}

\* The chat handlers that are about to call uuid.uuid4().
Creating == Cardinality({t \in ThreadIds : threads[t].pc = "create"})

Init ==
    /\ chat_sessions = << >>
    /\ heap = << >>
    /\ clock = 0
    /\ uuids = 0
    /\ request = Req("start", None, None)
    /\ turn = << >>
    /\ response = Ok([status |-> "ok"])
    /\ GROQ_API_KEY \in {None, Some("gsk")}
    /\ threads = [t \in ThreadIds |-> Idle]
    /\ provider_call = None

----------------------------------------------------------------------------
(* Session management endpoints *)

health ==
    /\ request' = Req("health", None, None)
    /\ response' = Ok([status |-> "ok"])
    /\ turn' = << >>
    /\ provider_call' = None
    /\ UNCHANGED <<chat_sessions, heap, clock, uuids, GROQ_API_KEY, threads>>

NewSession(session_id, now) == SessionInfo(session_id, now, now, << >>)

create_session ==
    /\ uuids + Creating < MaxIds
    /\ \E now \in clock..MaxTime :
         LET ref == uuids + 1
             session_id == uuid4(ref)
         IN /\ uuids' = ref
            /\ clock' = now
            /\ heap' = heap @@ (ref :> NewSession(session_id, now))
            /\ chat_sessions' = SetItem(chat_sessions, session_id, ref)
            /\ response' = Ok([session_id |-> session_id, created_at |-> now])
    /\ request' = Req("create_session", None, None)
    /\ turn' = << >>
    /\ provider_call' = None
    /\ UNCHANGED <<GROQ_API_KEY, threads>>

\* A lookup with no membership test: chat_sessions.get(session_id), answered 200.
GetResultUnchecked(d, hp, session_id) ==
    IF ~Contains(d, session_id) THEN Ok([detail |-> "null"])
    ELSE Ok(hp[GetItem(d, session_id)])

GetResult(d, hp, session_id) ==
    IF ~Contains(d, session_id) THEN NotFound
    ELSE Ok(hp[GetItem(d, session_id)])

get_session ==
    \E session_id \in SessionIds :
        /\ request' = Req("get_session", Some(session_id), None)
        /\ response' = GetResult(chat_sessions, heap, session_id)
        /\ turn' = << >>
        /\ provider_call' = None
        /\ UNCHANGED <<chat_sessions, heap, clock, uuids, GROQ_API_KEY, threads>>

DeleteResult(d, session_id) ==
    IF Contains(d, session_id)
    THEN [dict |-> DelItem(d, session_id),
          response |-> Ok([message |-> "Session deleted successfully"])]
    ELSE [dict |-> d, response |-> NotFound]

delete_session ==
    \E session_id \in SessionIds :
        LET r == DeleteResult(chat_sessions, session_id)
        IN /\ request' = Req("delete_session", Some(session_id), None)
           /\ chat_sessions' = r.dict
           /\ heap' = Collect(heap, Values(r.dict) \cup Held(threads))
           /\ response' = r.response
           /\ turn' = << >>
           /\ provider_call' = None
           /\ UNCHANGED <<clock, uuids, GROQ_API_KEY, threads>>

Summary(session) ==
    [session_id |-> session.session_id, created_at |-> session.created_at,
     last_active |-> session.last_active, message_count |-> Len(session.messages)]

ListResult(d, hp) == [i \in 1..Len(d) |-> Summary(hp[d[i].value])]

list_sessions ==
    /\ request' = Req("list_sessions", None, None)
    /\ response' = Ok([sessions |-> ListResult(chat_sessions, heap)])
    /\ turn' = << >>
    /\ provider_call' = None
    /\ UNCHANGED <<chat_sessions, heap, clock, uuids, GROQ_API_KEY, threads>>

----------------------------------------------------------------------------
(* The completion provider *)

\* What the provider library can do once it is called: raise an exception
\* anywhere in the try block; return a response whose content is a string;
\* return a response whose content is a list of content blocks.
ProviderOutcomes == {"raises", "text", "content_list"}

call_groq_with_langchain(messages, api_key, outcome) ==
    IF ~Truthy(api_key) THEN PyNone
    ELSE IF outcome = "raises" THEN PyNone
    ELSE IF outcome = "text" THEN PyStr("ok")
    ELSE PyList

----------------------------------------------------------------------------
(* POST /chat *)

\* The bodies a client may send: messages without a timestamp of their own.
RawMessages == [role : Roles, content : Contents, timestamp : {None}]

ChatSessionIds == {None, Some("")} \cup {Some(id) : id \in SessionIds}

\* The new messages put in front of the list.
ExtendFront(list, more) == more \o list

\* list.extend
Extend(list, more) == list \o more

\* Lines 163-180: the session of the turn. found is FALSE where the handler
\* raises the 404; session is the reference the local variable holds.
ResolveSession(d, hp, n, session_id, messages, now) ==
    IF Truthy(session_id)
    THEN IF ~Contains(d, session_id[1])
         THEN [found |-> FALSE, dict |-> d, heap |-> hp, uuids |-> n, session |-> 0]
         ELSE LET ref == GetItem(d, session_id[1])
              IN [found |-> TRUE, dict |-> d,
                  heap |-> [hp EXCEPT ![ref].messages = Extend(@, messages)],
                  uuids |-> n, session |-> ref]
    ELSE LET ref == n + 1
             id == uuid4(ref)
         IN [found |-> TRUE, dict |-> SetItem(d, id, ref),
             heap |-> hp @@ (ref :> SessionInfo(id, now, now, messages)),
             uuids |-> ref, session |-> ref]

\* last_active taken from the session's first message, not from the clock.
TouchFromMessage(hp, ref, now) ==
    [hp EXCEPT ![ref].last_active =
         IF hp[ref].messages = << >> THEN now ELSE hp[ref].messages[1].timestamp]

\* Line 183
Touch(hp, ref, now) == [hp EXCEPT ![ref].last_active = now]

\* The scan run forward: the first message with role user.
UserFirst(messages) ==
    LET users == {i \in 1..Len(messages) : messages[i].role = "user"}
    IN IF users = {} THEN ""
       ELSE messages[CHOOSE i \in users : \A j \in users : i <= j].content

\* Line 189: the content of the last message with role user, "" if none
UserLast(messages) ==
    LET users == {i \in 1..Len(messages) : messages[i].role = "user"}
    IN IF users = {} THEN ""
       ELSE messages[CHOOSE i \in users : \A j \in users : j <= i].content

\* Lines 190-194
Fallback(user_last) ==
    "(Demo mode) You said: " \o user_last
        \o "\nSet GROQ_API_KEY to enable real model responses."

\* Lines 186-194
Completion(messages, api_key, outcome) ==
    LET completion == call_groq_with_langchain(messages, api_key, outcome)
    IN IF completion = PyNone THEN PyStr(Fallback(UserLast(messages)))
       ELSE completion

\* The reply appended to the history of every session.
AppendReplyEverywhere(hp, ref, message) ==
    [r \in DOMAIN hp |-> [hp[r] EXCEPT !.messages = Append(@, message)]]

\* Line 198
AppendReply(hp, ref, message) == [hp EXCEPT ![ref].messages = Append(@, message)]

\* What the provider call of this turn does; the library is not reached
\* without a credential.
Outcomes(api_key) == IF Truthy(api_key) THEN ProviderOutcomes ELSE {"not_called"}

\* Line 34: a field the body leaves out takes its default. A body field is
\* None when it is left out and Some(v) when it is given, v itself being None
\* for a JSON null.
Field(field, default) == IF field = None THEN default ELSE field[1]

\* Temperatures are counted in tenths: 2 is 0.2.
TemperatureDefault == 2
TemperatureOr == 2

\* Line 186: req.temperature or 0.2; None and 0.0 are falsy
TemperatureOrDefault(temperature) ==
    IF temperature = None \/ temperature[1] = 0 THEN TemperatureOr ELSE temperature[1]

\* A POST /chat request as the properties see it: messages is None for a body
\* without the field and Some(n) for a list of n messages, roles_valid tells
\* whether every role is one of the Literal, temperature is the body's field.
ChatReq(session_id, messages, roles_valid, temperature) ==
    [op |-> "chat", session_id |-> session_id, max_age_hours |-> None,
     messages |-> messages, roles_valid |-> roles_valid, temperature |-> temperature]

\* The handler, run on the requests whose session_id is in session_ids, whose
\* messages are at most max_msgs elements of alphabet, and whose temperature
\* field is in temperatures.
Chat(session_ids, alphabet, max_msgs, temperatures) ==
    \E session_id \in session_ids, n \in 0..max_msgs, temperature \in temperatures :
      \E parse \in Readings(clock, n) :
        LET t0 == Last(parse, clock)
            k == IF Truthy(session_id) THEN 2 ELSE 3
            req_temperature == Field(temperature, Some(TemperatureDefault))
        IN /\ request' = ChatReq(session_id, Some(n), TRUE, temperature)
           /\ UNCHANGED <<GROQ_API_KEY, threads>>
           /\ IF Truthy(session_id) /\ ~Contains(chat_sessions, session_id[1])
              THEN /\ response' = NotFound
                   /\ clock' = t0
                   /\ turn' = << >>
                   /\ provider_call' = None
                   /\ UNCHANGED <<chat_sessions, heap, uuids>>
              ELSE /\ Truthy(session_id) \/ uuids < MaxIds
                   /\ Stored + n + 1 <= MaxStored
                   /\ provider_call' =
                          Some([temperature |-> TemperatureOrDefault(req_temperature)])
                   /\ \E raw \in [1..n -> alphabet],
                         outcome \in Outcomes(GROQ_API_KEY),
                         reads \in Readings(t0, k) :
                        LET messages == ParseMessages(raw, parse)
                            s == ResolveSession(chat_sessions, heap, uuids,
                                                session_id, messages, reads[1])
                            hp == Touch(s.heap, s.session, reads[k - 1])
                            completion == Completion(hp[s.session].messages,
                                                     GROQ_API_KEY, outcome)
                            assistant_message ==
                                Message("assistant", completion.value, None, reads[k])
                        IN /\ chat_sessions' = s.dict
                           /\ uuids' = s.uuids
                           /\ turn' = messages
                           /\ IF completion.type # "str"
                              THEN \* Message(...) raises a ValidationError
                                   /\ heap' = hp
                                   /\ clock' = reads[k - 1]
                                   /\ response' = InternalServerError
                              ELSE /\ heap' = AppendReply(hp, s.session, assistant_message)
                                   /\ clock' = reads[k]
                                   /\ response' = Ok([reply |-> assistant_message,
                                                      session_id |-> hp[s.session].session_id])

\* The turns of plain messages that leave the temperature out.
chat == Chat(ChatSessionIds, RawMessages, MaxMsgs, {None})

----------------------------------------------------------------------------
(* POST /chat with any body: FastAPI builds the ChatRequest from the body,  *)
(* answers 422 if that fails and calls the handler if it succeeds.          *)

MaxInputMsgs == 2   \* messages in one chat request with the wider inputs

\* The response to a body that is no ChatRequest.
UnprocessableEntity == [status |-> 422, body |-> [detail |-> "validation error"]]

\* The messages of the wider inputs: without a timestamp, or with a timestamp
\* of the client's own (the hour 0).
InputMessages ==
    [role : {"user"}, content : {"a"}, timestamp : {None, Some(0)}]

\* A message whose role is none of the Literal.
BadMessages == [role : {"tool"}, content : {"a"}, timestamp : {None}]

\* The bodies with a fault: no messages field, or a message with a bad role.
InvalidBodies ==
    {[messages |-> None]} \cup {[messages |-> Some(<<m>>)] : m \in BadMessages}

\* Lines 20-35: what pydantic refuses. A list of no message is a List[Message].
ValidationError(body) ==
    IF body.messages = None THEN TRUE
    ELSE \E i \in 1..Len(body.messages[1]) : body.messages[1][i].role \notin Roles

\* The temperature field: left out, null, 0.0 or 0.7.
Temperatures == {None, Some(None), Some(Some(0)), Some(Some(7))}

post_chat ==
    \/ \E session_id \in ChatSessionIds, body \in InvalidBodies :
         /\ ValidationError(body)
         /\ request' = ChatReq(session_id,
                               IF body.messages = None THEN None
                               ELSE Some(Len(body.messages[1])),
                               IF body.messages = None THEN TRUE
                               ELSE \A i \in 1..Len(body.messages[1]) :
                                      body.messages[1][i].role \in Roles,
                               None)
         /\ response' = UnprocessableEntity
         /\ turn' = << >>
         /\ provider_call' = None
         /\ UNCHANGED <<chat_sessions, heap, clock, uuids, GROQ_API_KEY, threads>>
    \/ Chat(ChatSessionIds, InputMessages, MaxInputMsgs, Temperatures)

NextInputs ==
    \/ create_session
    \/ delete_session
    \/ post_chat

SpecInputs == Init /\ [][NextInputs]_vars

----------------------------------------------------------------------------
(* POST /cleanup *)

MaxHours == 1    \* max_age_hours is None (the default) or in -1..MaxHours

MaxAgeChoices == {None} \cup {Some(h) : h \in -1..MaxHours}

\* The comparison with >= for >.
ExpiredInclusive(d, hp, now, max_age_hours) ==
    LET sel == SelectSeq(d, LAMBDA e : (now - hp[e.value].last_active) >= max_age_hours)
    IN [i \in 1..Len(sel) |-> sel[i].key]

\* Lines 209-212: the keys of the sessions to remove, in dict order
Expired(d, hp, now, max_age_hours) ==
    LET sel == SelectSeq(d, LAMBDA e : (now - hp[e.value].last_active) > max_age_hours)
    IN [i \in 1..Len(sel) |-> sel[i].key]

\* A loop that stops after its first iteration.
DelFirstOnly(d, keys) == IF keys = << >> THEN d ELSE DelItem(d, Head(keys))

\* Lines 214-215
RECURSIVE DelAll(_, _)
DelAll(d, keys) ==
    IF keys = << >> THEN d ELSE DelAll(DelItem(d, Head(keys)), Tail(keys))

\* A POST /cleanup request as the properties see it. repeats is None, or
\* Some(c) when the request handled just before was a sweep with the same
\* max_age_hours that read the same clock and removed c sessions.
SweepReq(max_age_hours, now) ==
    [op |-> "cleanup_sessions", session_id |-> None, max_age_hours |-> max_age_hours,
     repeats |-> IF /\ request.op = "cleanup_sessions"
                    /\ request.max_age_hours = max_age_hours
                    /\ clock = now
                 THEN Some(response.body.count) ELSE None]

cleanup_sessions ==
    \E age \in MaxAgeChoices, now \in clock..MaxTime :
        LET max_age_hours == IF age = None THEN DefaultMaxAgeHours ELSE age[1]
            expired_sessions == Expired(chat_sessions, heap, now, max_age_hours)
            d == DelAll(chat_sessions, expired_sessions)
        IN /\ request' = SweepReq(age, now)
           /\ clock' = now
           /\ chat_sessions' = d
           /\ heap' = Collect(heap, Values(d) \cup Held(threads))
           /\ response' = Ok([count |-> Len(expired_sessions),
                              expired_sessions |-> expired_sessions])
           /\ turn' = << >>
           /\ provider_call' = None
           /\ UNCHANGED <<uuids, GROQ_API_KEY, threads>>

----------------------------------------------------------------------------
(* The handlers as the thread pool runs them: a handler is a sequence of   *)
(* steps, one per access to the shared dict, to a shared object or to the  *)
(* clock, and the steps of handlers on different threads interleave.       *)
(* A request goes to the first idle worker. get_session and list_sessions  *)
(* write nothing that another handler reads and are left out.              *)

MaxConcMsgs == 1   \* messages in one chat request of an interleaved run

ConcRawMessages == [role : {"user"}, content : Contents, timestamp : {None}]

\* The handler on thread t ends, by a return or by an exception: its locals
\* go. The response is not kept in the state of an interleaved run; it is
\* what the step's comment says.
End(t) ==
    /\ threads' = [threads EXCEPT ![t] = Idle]
    /\ UNCHANGED <<request, response, turn, provider_call>>

\* The messages the running chat handlers are still to store.
PendingOf(th) ==
    IF th.pc \in {"lookup", "extend", "create"} THEN Len(th.messages) + 1
    ELSE IF th.pc \in {"bind", "clock", "touch", "complete", "reply"} THEN 1
    ELSE 0

RECURSIVE SumPending(_, _)
SumPending(th, ts) ==
    IF ts = {} THEN 0
    ELSE LET t == CHOOSE x \in ts : TRUE
         IN PendingOf(th[t]) + SumPending(th, ts \ {t})

Pending == SumPending(threads, ThreadIds)

\* Lines 161-166: the request is parsed, then `req.session_id not in
\* chat_sessions`, which ends the handler with the 404
ChatBegin(t) ==
    /\ threads[t].pc = "idle"
    /\ \A u \in 1..(t - 1) : threads[u].pc # "idle"
    /\ \E session_id \in ChatSessionIds, n \in 0..MaxConcMsgs :
         \E parse \in Readings(clock, n) :
           /\ clock' = Last(parse, clock)
           /\ IF Truthy(session_id) /\ ~Contains(chat_sessions, session_id[1])
              THEN /\ End(t)
                   /\ UNCHANGED <<chat_sessions, heap, uuids, GROQ_API_KEY>>
              ELSE /\ Truthy(session_id) \/ uuids + Creating < MaxIds
                   /\ Stored + Pending + n + 1 <= MaxStored
                   /\ \E raw \in [1..n -> ConcRawMessages] :
                        threads' = [threads EXCEPT ![t] =
                            [Idle EXCEPT !.pc = IF Truthy(session_id) THEN "lookup"
                                                ELSE "create",
                                         !.session_id = session_id,
                                         !.messages = ParseMessages(raw, parse),
                                         !.key = IF Truthy(session_id)
                                                 THEN session_id[1] ELSE ""]]
                   /\ UNCHANGED <<chat_sessions, heap, uuids, GROQ_API_KEY,
                                  request, response, turn, provider_call>>

\* Line 167: session = chat_sessions[req.session_id]; a KeyError, and so a
\* 500, if the key is gone
ChatLookup(t) ==
    /\ threads[t].pc = "lookup"
    /\ IF Contains(chat_sessions, threads[t].key)
       THEN /\ threads' = [threads EXCEPT
                             ![t].session = GetItem(chat_sessions, threads[t].key),
                             ![t].session_id = None, ![t].key = "",
                             ![t].pc = "extend"]
            /\ UNCHANGED <<request, response, turn, provider_call>>
       ELSE End(t)
    /\ UNCHANGED <<chat_sessions, heap, clock, uuids, GROQ_API_KEY>>

\* Line 169
ChatExtend(t) ==
    /\ threads[t].pc = "extend"
    /\ heap' = [heap EXCEPT ![threads[t].session].messages =
                                Extend(@, threads[t].messages)]
    /\ threads' = [threads EXCEPT ![t].messages = << >>, ![t].pc = "clock"]
    /\ UNCHANGED <<chat_sessions, clock, uuids, GROQ_API_KEY, request, response, turn, provider_call>>

\* Lines 172-179
ChatCreate(t) ==
    /\ threads[t].pc = "create"
    /\ uuids < MaxIds
    /\ \E now \in clock..MaxTime :
         LET s == ResolveSession(chat_sessions, heap, uuids, threads[t].session_id,
                                 threads[t].messages, now)
         IN /\ chat_sessions' = s.dict
            /\ heap' = s.heap
            /\ uuids' = s.uuids
            /\ clock' = now
            /\ threads' = [threads EXCEPT ![t].key = uuid4(s.uuids),
                                          ![t].session_id = None,
                                          ![t].messages = << >>, ![t].pc = "bind"]
    /\ UNCHANGED <<GROQ_API_KEY, request, response, turn, provider_call>>

\* Line 180: session = chat_sessions[session_id]; a KeyError, and so a 500,
\* if the key is gone
ChatBind(t) ==
    /\ threads[t].pc = "bind"
    /\ IF Contains(chat_sessions, threads[t].key)
       THEN /\ threads' = [threads EXCEPT
                             ![t].session = GetItem(chat_sessions, threads[t].key),
                             ![t].key = "", ![t].pc = "clock"]
            /\ UNCHANGED <<request, response, turn, provider_call>>
       ELSE End(t)
    /\ UNCHANGED <<chat_sessions, heap, clock, uuids, GROQ_API_KEY>>

\* Line 183, the right-hand side: datetime.now()
ChatClock(t) ==
    /\ threads[t].pc = "clock"
    /\ \E now \in clock..MaxTime :
         /\ clock' = now
         /\ threads' = [threads EXCEPT ![t].now = now, ![t].pc = "touch"]
    /\ UNCHANGED <<chat_sessions, heap, uuids, GROQ_API_KEY, request, response, turn, provider_call>>

\* Line 183, the assignment to session.last_active
ChatTouch(t) ==
    /\ threads[t].pc = "touch"
    /\ heap' = Touch(heap, threads[t].session, threads[t].now)
    /\ threads' = [threads EXCEPT ![t].now = 0, ![t].pc = "complete"]
    /\ UNCHANGED <<chat_sessions, clock, uuids, GROQ_API_KEY, request, response, turn, provider_call>>

\* Lines 186-194: the provider call returns, and the fallback reads the history
ChatComplete(t) ==
    /\ threads[t].pc = "complete"
    /\ \E outcome \in Outcomes(GROQ_API_KEY) :
         threads' = [threads EXCEPT
                       ![t].completion = Completion(heap[threads[t].session].messages,
                                                    GROQ_API_KEY, outcome),
                       ![t].pc = "reply"]
    /\ UNCHANGED <<chat_sessions, heap, clock, uuids, GROQ_API_KEY,
                   request, response, turn, provider_call>>

\* Lines 197-198
ChatReply(t) ==
    /\ threads[t].pc = "reply"
    /\ IF threads[t].completion.type # "str"
       THEN \* Message(...) raises a ValidationError: a 500
            /\ End(t)
            /\ heap' = Collect(heap, Values(chat_sessions) \cup Held(threads'))
            /\ UNCHANGED clock
       ELSE \E now \in clock..MaxTime :
              LET assistant_message ==
                      Message("assistant", threads[t].completion.value, None, now)
              IN /\ clock' = now
                 /\ heap' = AppendReply(heap, threads[t].session, assistant_message)
                 /\ threads' = [threads EXCEPT ![t].reply = Some(assistant_message),
                                               ![t].completion = PyNone,
                                               ![t].pc = "return"]
                 /\ UNCHANGED <<request, response, turn, provider_call>>
    /\ UNCHANGED <<chat_sessions, uuids, GROQ_API_KEY>>

\* Line 200: the response carries the reply and session.session_id
ChatReturn(t) ==
    /\ threads[t].pc = "return"
    /\ End(t)
    /\ heap' = Collect(heap, Values(chat_sessions) \cup Held(threads'))
    /\ UNCHANGED <<chat_sessions, clock, uuids, GROQ_API_KEY>>

\* Lines 99-101 and 104: `session_id in chat_sessions`, and the 404 if not
DeleteBegin(t) ==
    /\ threads[t].pc = "idle"
    /\ \A u \in 1..(t - 1) : threads[u].pc # "idle"
    /\ \E session_id \in SessionIds :
         IF Contains(chat_sessions, session_id)
         THEN /\ threads' = [threads EXCEPT ![t] =
                               [Idle EXCEPT !.pc = "del", !.key = session_id]]
              /\ UNCHANGED <<request, response, turn, provider_call>>
         ELSE End(t)
    /\ UNCHANGED <<chat_sessions, heap, clock, uuids, GROQ_API_KEY>>

\* Lines 102-103: del chat_sessions[session_id]; a KeyError, and so a 500, if
\* the key is gone
DeleteDel(t) ==
    /\ threads[t].pc = "del"
    /\ LET r == DeleteResult(chat_sessions, threads[t].key)
       IN /\ chat_sessions' = r.dict
          /\ heap' = Collect(heap, Values(r.dict) \cup Held(threads))
          /\ End(t)
    /\ UNCHANGED <<clock, uuids, GROQ_API_KEY>>

\* Lines 205-212: the clock is read and the expired keys are collected; the
\* list comprehension is taken as one step
CleanupBegin(t) ==
    /\ threads[t].pc = "idle"
    /\ \A u \in 1..(t - 1) : threads[u].pc # "idle"
    /\ \E age \in MaxAgeChoices, now \in clock..MaxTime :
         LET max_age_hours == IF age = None THEN DefaultMaxAgeHours ELSE age[1]
         IN /\ clock' = now
            /\ threads' = [threads EXCEPT ![t] =
                  [Idle EXCEPT !.pc = "sweep",
                               !.expired_sessions =
                                   Expired(chat_sessions, heap, now, max_age_hours)]]
    /\ UNCHANGED <<chat_sessions, heap, uuids, GROQ_API_KEY, request, response, turn, provider_call>>

\* Lines 214-215, one iteration: del chat_sessions[session_id]; a KeyError,
\* and so a 500, if the key is gone
CleanupDel(t) ==
    /\ threads[t].pc = "sweep"
    /\ threads[t].deleted < Len(threads[t].expired_sessions)
    /\ LET session_id == threads[t].expired_sessions[threads[t].deleted + 1]
       IN IF Contains(chat_sessions, session_id)
          THEN /\ chat_sessions' = DelItem(chat_sessions, session_id)
               /\ heap' = Collect(heap, Values(chat_sessions') \cup Held(threads))
               /\ threads' = [threads EXCEPT ![t].deleted = @ + 1]
               /\ UNCHANGED <<request, response, turn, provider_call>>
          ELSE /\ End(t)
               /\ UNCHANGED <<chat_sessions, heap>>
    /\ UNCHANGED <<clock, uuids, GROQ_API_KEY>>

\* Lines 217-220: the response lists expired_sessions
CleanupReturn(t) ==
    /\ threads[t].pc = "sweep"
    /\ threads[t].deleted = Len(threads[t].expired_sessions)
    /\ End(t)
    /\ UNCHANGED <<chat_sessions, heap, clock, uuids, GROQ_API_KEY>>

NextConc ==
    \/ create_session
    \/ \E t \in ThreadIds :
         \/ ChatBegin(t)
         \/ ChatLookup(t)
         \/ ChatExtend(t)
         \/ ChatCreate(t)
         \/ ChatBind(t)
         \/ ChatClock(t)
         \/ ChatTouch(t)
         \/ ChatComplete(t)
         \/ ChatReply(t)
         \/ ChatReturn(t)
         \/ DeleteBegin(t)
         \/ DeleteDel(t)
         \/ CleanupBegin(t)
         \/ CleanupDel(t)
         \/ CleanupReturn(t)

\* With a credential the provider call has every outcome: "raises" leaves the
\* handler where a missing credential does.
InitConc == Init /\ GROQ_API_KEY # None

SpecConc == InitConc /\ [][NextConc]_vars

----------------------------------------------------------------------------
(* Chat turns that run at the same time on different sessions: a turn      *)
(* begins only on a session that no running turn works on.                 *)

\* The identifier of the session a running chat handler works on: the key it
\* is about to look up, or the session_id of the object it holds; "" for a
\* handler that has yet to create its session, and for any other handler.
Target(th) ==
    IF th.pc \in {"lookup", "bind"} THEN th.key
    ELSE IF th.session # 0 THEN heap[th.session].session_id
    ELSE ""

ChatBeginApart(t) ==
    /\ ChatBegin(t)
    /\ \A u \in ThreadIds \ {t} :
         threads'[t].key = "" \/ Target(threads[u]) # threads'[t].key

NextPair ==
    \/ create_session
    \/ \E t \in ThreadIds :
         \/ ChatBeginApart(t)
         \/ ChatLookup(t)
         \/ ChatExtend(t)
         \/ ChatCreate(t)
         \/ ChatBind(t)
         \/ ChatClock(t)
         \/ ChatTouch(t)
         \/ ChatComplete(t)
         \/ ChatReply(t)
         \/ ChatReturn(t)

SpecPair == InitConc /\ [][NextPair]_vars

----------------------------------------------------------------------------

Next ==
    \/ health
    \/ create_session
    \/ get_session
    \/ delete_session
    \/ list_sessions
    \/ chat
    \/ cleanup_sessions

Spec == Init /\ [][Next]_vars

----------------------------------------------------------------------------
(* Vocabulary of the properties *)

Ids == Keys(chat_sessions)

IsPrefix(s, t) == Len(s) <= Len(t) /\ SubSeq(t, 1, Len(s)) = s

\* The step is a chat request that carries the field session_id.
ChatWithSessionId == request'.op = "chat" /\ request'.session_id # None

\* h is the history `before`, then the messages `added`, then one assistant message.
IsTurnAppended(h, before, added) ==
    /\ Len(h) = Len(before) + Len(added) + 1
    /\ SubSeq(h, 1, Len(h) - 1) = before \o added
    /\ h[Len(h)].role = "assistant"

OthersUnchanged(id) ==
    \A k \in Ids \ {id} : k \in Ids' /\ Store'[k] = Store[k]

----------------------------------------------------------------------------
(* C1: a chat request that supplies a session_id not in the store fails    *)
(* with NotFound and leaves the store as it was.                           *)

C1_UnknownSessionIdIsNotFound ==
    [][(ChatWithSessionId /\ request'.session_id[1] \notin Ids)
         => (response' = NotFound /\ Store' = Store)]_vars

\* The same for the identifiers Python holds true (every string but "").
C1_UnknownTruthySessionIdIsNotFound ==
    [][(ChatWithSessionId /\ Truthy(request'.session_id)
          /\ request'.session_id[1] \notin Ids)
         => (response' = NotFound /\ Store' = Store)]_vars

----------------------------------------------------------------------------
(* C2: a chat turn with no session_id adds exactly one session, under an   *)
(* identifier that was not in the store; its history is the submitted      *)
(* messages in order followed by one assistant reply; every other session  *)
(* is unchanged.                                                           *)

C2_TurnWithoutSessionIdCreatesOne ==
    [][(request'.op = "chat" /\ request'.session_id = None)
         => \E id \in Ids' \ Ids :
              /\ Ids' = Ids \cup {id}
              /\ IsTurnAppended(Store'[id].messages, << >>, turn')
              /\ OthersUnchanged(id)]_vars

\* The same for the turns that are answered with a reply.
C2_AnsweredTurnWithoutSessionIdCreatesOne ==
    [][(request'.op = "chat" /\ request'.session_id = None /\ response'.status = 200)
         => \E id \in Ids' \ Ids :
              /\ Ids' = Ids \cup {id}
              /\ IsTurnAppended(Store'[id].messages, << >>, turn')
              /\ Store'[id].messages[Len(Store'[id].messages)] = response'.body.reply
              /\ response'.body.session_id = id
              /\ OthersUnchanged(id)]_vars

----------------------------------------------------------------------------
(* C3: a chat turn with a session_id in the store leaves that session's    *)
(* history equal to its previous history, then the submitted messages in   *)
(* order, then one assistant reply; no other session changes.              *)

C3_TurnOnStoredSessionAppends ==
    [][(ChatWithSessionId /\ request'.session_id[1] \in Ids)
         => LET id == request'.session_id[1]
            IN /\ Ids' = Ids
               /\ IsTurnAppended(Store'[id].messages, Store[id].messages, turn')
               /\ IsPrefix(Store[id].messages, Store'[id].messages)
               /\ OthersUnchanged(id)]_vars

\* The same for the turns that are answered with a reply.
C3_AnsweredTurnOnStoredSessionAppends ==
    [][(ChatWithSessionId /\ request'.session_id[1] \in Ids /\ response'.status = 200)
         => LET id == request'.session_id[1]
            IN /\ Ids' = Ids
               /\ IsTurnAppended(Store'[id].messages, Store[id].messages, turn')
               /\ IsPrefix(Store[id].messages, Store'[id].messages)
               /\ OthersUnchanged(id)]_vars

----------------------------------------------------------------------------
(* C4: with no credential configured, the reply of a chat turn is exactly  *)
(* "(Demo mode) You said: " + U + "\nSet GROQ_API_KEY to enable real model *)
(* responses.", U being the content of the last user message of the whole  *)
(* history once the turn's messages are in it, and "" if there is none.    *)

C4_FallbackEchoesLastUserMessage ==
    [][(request'.op = "chat" /\ response'.status = 200 /\ GROQ_API_KEY = None)
         => LET h == Store'[response'.body.session_id].messages
                asked == SubSeq(h, 1, Len(h) - 1)
                users == {i \in 1..Len(asked) : asked[i].role = "user"}
                reply(U) == "(Demo mode) You said: " \o U
                              \o "\nSet GROQ_API_KEY to enable real model responses."
            IN /\ response'.body.reply.role = "assistant"
               /\ IF users = {}
                  THEN response'.body.reply.content = reply("")
                  ELSE \E i \in users :
                         /\ \A j \in users : j <= i
                         /\ response'.body.reply.content = reply(asked[i].content)]_vars

\* A reply that echoes a user message of an earlier turn: the turn answered
\* last held no user message.
C4_Witness ==
    /\ request.op = "chat" /\ response.status = 200 /\ GROQ_API_KEY = None
    /\ request.session_id # None
    /\ \A i \in 1..Len(turn) : turn[i].role # "user"
    /\ response.body.reply.content
         = "(Demo mode) You said: b\nSet GROQ_API_KEY to enable real model responses."

----------------------------------------------------------------------------
(* C5: once a chat request has resolved its session, whatever the provider *)
(* call does, the response is a success carrying an assistant reply, and   *)
(* that reply is appended to the session's history.                        *)

C5_ProviderFaultsNeverSurface ==
    [][(request'.op = "chat" /\ response' # NotFound)
         => /\ response'.status = 200
            /\ response'.body.reply.role = "assistant"
            /\ response'.body.session_id \in Ids'
            /\ LET h == Store'[response'.body.session_id].messages
               IN h # << >> /\ h[Len(h)] = response'.body.reply]_vars

----------------------------------------------------------------------------
(* C6: a cleanup sweep with threshold H removes exactly the sessions whose *)
(* last_active is strictly older than now - H, returns exactly the         *)
(* identifiers it removed, and leaves every other session unchanged.       *)

C6_SweepRemovesExactlyTheExpired ==
    [][request'.op = "cleanup_sessions"
         => LET H == IF request'.max_age_hours = None THEN DefaultMaxAgeHours
                     ELSE request'.max_age_hours[1]
                now == clock'
                old == {k \in Ids : Store[k].last_active < now - H}
                returned == response'.body.expired_sessions
            IN /\ Ids' = Ids \ old
               /\ {returned[i] : i \in 1..Len(returned)} = old
               /\ Len(returned) = Cardinality(old)
               /\ response'.body.count = Cardinality(old)
               /\ \A k \in Ids' : Store'[k] = Store[k]]_vars

\* A sweep that removed a session and kept another.
C6_Witness ==
    /\ request.op = "cleanup_sessions"
    /\ response.body.count >= 1
    /\ Ids # {}

----------------------------------------------------------------------------
(* C7: over any interleaving of the handlers, while a session identifier   *)
(* stays in the store its history only grows at the end: every step leaves *)
(* the history it found as a prefix of the history it leaves. A key that   *)
(* enters the store is the uuid issued last, so no removed identifier      *)
(* comes back with another history.                                        *)

C7_HistoryIsAppendOnly ==
    [][/\ \A k \in Ids \cap Ids' : IsPrefix(Store[k].messages, Store'[k].messages)
       /\ \A k \in Ids' \ Ids : uuids' = uuids + 1 /\ k = uuid4(uuids')]_vars

\* Two turns on one stored session, interleaved: the turn on thread t has
\* appended its reply and not returned yet, and another turn's reply follows it.
C7_Witness ==
    \E t \in ThreadIds, k \in Ids :
        /\ threads[t].pc = "return"
        /\ threads[t].session = GetItem(chat_sessions, k)
        /\ LET h == Store[k].messages
           IN /\ Len(h) >= 3
              /\ h[Len(h) - 1] = threads[t].reply[1]
              /\ h[Len(h)] # threads[t].reply[1]

----------------------------------------------------------------------------
(* C8: every stored session has last_active >= created_at (the clock never *)
(* going backward).                                                        *)

C8_LastActiveNotBeforeCreatedAt ==
    \A k \in Ids : Store[k].last_active >= Store[k].created_at

\* A chat turn that created its session and left last_active after created_at.
C8_Witness ==
    /\ request.op = "chat" /\ request.session_id = None
    /\ \E k \in Ids : /\ response.status = 200 /\ response.body.session_id = k
                      /\ Store[k].last_active > Store[k].created_at

----------------------------------------------------------------------------
(* C9: delete(id) removes exactly the session id when it is stored and     *)
(* leaves the others unchanged; otherwise it fails with NotFound and       *)
(* leaves the store unchanged.                                             *)

C9_DeleteRemovesExactlyOne ==
    [][request'.op = "delete_session"
         => LET id == request'.session_id[1]
            IN IF id \in Ids
               THEN /\ Ids' = Ids \ {id}
                    /\ response'.status = 200
                    /\ OthersUnchanged(id)
               ELSE response' = NotFound /\ Store' = Store]_vars

\* A delete that removed one session of two.
C9_Witness ==
    /\ request.op = "delete_session" /\ response.status = 200
    /\ \E k \in Ids : Store[k].messages # << >>

----------------------------------------------------------------------------
(* C10: get(id) returns the stored session with its full history when id   *)
(* is stored and fails with NotFound when it is not; the store, the        *)
(* session's last_active included, is unchanged either way.                *)

C10_GetReturnsStoredSession ==
    [][request'.op = "get_session"
         => LET id == request'.session_id[1]
            IN /\ Store' = Store
               /\ IF id \in Ids THEN response' = Ok(Store[id])
                  ELSE response' = NotFound]_vars

\* A get of an identifier that was issued and is stored no more.
C10_Witness ==
    /\ request.op = "get_session" /\ response = NotFound
    /\ uuids >= 1 /\ request.session_id = Some(uuid4(1))

----------------------------------------------------------------------------
(* C11: a chat request that is no valid input (no messages field, a role    *)
(* outside system/user/assistant, or a list of fewer than one message) is   *)
(* rejected with a validation failure and leaves the store unchanged.       *)

C11_InvalidChatRequestIsRejected ==
    [][(/\ request'.op = "chat"
        /\ IF request'.messages = None THEN TRUE
           ELSE ~request'.roles_valid \/ request'.messages[1] < 1)
         => (response' = UnprocessableEntity /\ Store' = Store)]_vars

\* The same for the bodies pydantic refuses: no messages field, or a bad role.
C11_MalformedChatRequestIsRejected ==
    [][(/\ request'.op = "chat"
        /\ IF request'.messages = None THEN TRUE ELSE ~request'.roles_valid)
         => (response' = UnprocessableEntity /\ Store' = Store)]_vars

----------------------------------------------------------------------------
(* C14: a chat request creates a session only when it supplies no session  *)
(* identifier; one that supplies an identifier, the empty string included, *)
(* creates none: it uses the stored session of that identifier or fails    *)
(* with NotFound.                                                          *)

C14_SuppliedSessionIdNeverCreates ==
    [][request'.op = "chat"
         => /\ Ids' # Ids => request'.session_id = None
            /\ request'.session_id # None
                 => \/ request'.session_id[1] \in Ids
                    \/ response' = NotFound]_vars

----------------------------------------------------------------------------
(* C16: the temperature passed to the provider is the caller's whenever    *)
(* the request supplies one, 0 included, and 0.2 only when it supplies     *)
(* none.                                                                   *)

C16_TemperatureIsTheCallers ==
    [][(request'.op = "chat" /\ provider_call' # None)
         => LET field == request'.temperature
                supplied == IF field = None THEN FALSE ELSE field[1] # None
            IN provider_call'[1].temperature
                 = IF supplied THEN field[1][1] ELSE TemperatureDefault]_vars

----------------------------------------------------------------------------
(* C17: in every session the message timestamps are non-decreasing along   *)
(* the history, for every request the endpoint accepts, those whose        *)
(* messages carry a timestamp of their own included.                       *)

C17_TimestampsFollowInsertionOrder ==
    \A k \in Ids :
        \A i, j \in 1..Len(Store[k].messages) :
            i <= j => Store[k].messages[i].timestamp <= Store[k].messages[j].timestamp

----------------------------------------------------------------------------
(* C12: every explicit creation adds one session under an identifier that   *)
(* was not in the store, with an empty history, so N creations with no      *)
(* deletion in between leave N distinct identifiers; list() returns one     *)
(* summary per stored session, its message_count the length of that         *)
(* session's history, and changes nothing.                                  *)

C12_CreatedIdsAreDistinctAndListed ==
    [][/\ request'.op = "create_session"
            => LET id == response'.body.session_id
               IN /\ id \notin Ids
                  /\ Ids' = Ids \cup {id}
                  /\ Len(chat_sessions') = Cardinality(Ids')
                  /\ Store'[id].messages = << >>
                  /\ OthersUnchanged(id)
       /\ request'.op = "list_sessions"
            => LET l == response'.body.sessions
               IN /\ Len(l) = Cardinality(Ids)
                  /\ \A k \in Ids :
                       \E i \in 1..Len(l) :
                           /\ l[i].session_id = k
                           /\ l[i].message_count = Len(Store[k].messages)
                  /\ Store' = Store]_vars

\* Two creations have been made, and list() returns two summaries of distinct
\* identifiers, each with message_count 0.
C12_Witness ==
    /\ request.op = "list_sessions"
    /\ uuids = 2
    /\ Len(response.body.sessions) = 2
    /\ response.body.sessions[1].session_id # response.body.sessions[2].session_id
    /\ \A i \in 1..2 : response.body.sessions[i].message_count = 0

----------------------------------------------------------------------------
(* C13: a sweep that follows a sweep with the same threshold, with no time *)
(* elapsed and no request in between, removes no session and returns an    *)
(* empty list of identifiers.                                              *)

C13_SecondSweepRemovesNothing ==
    [][(/\ request.op = "cleanup_sessions"
        /\ request'.op = "cleanup_sessions"
        /\ request'.max_age_hours = request.max_age_hours
        /\ clock' = clock)
         => /\ response'.body.expired_sessions = << >>
            /\ response'.body.count = 0
            /\ Store' = Store]_vars

\* The second of two such sweeps has run; the first removed a session and
\* left another in the store.
C13_Witness ==
    /\ request.op = "cleanup_sessions"
    /\ request.repeats = Some(1)
    /\ response.body.count = 0
    /\ Ids # {}

----------------------------------------------------------------------------
(* C15: for every session, last_active never decreases from one state to   *)
(* the next, also when chat turns on the same session run at the same time *)
(* and each reads the clock and then writes last_active in two steps.      *)

C15_LastActiveNeverDecreases ==
    [][\A k \in Ids \cap Ids' : Store'[k].last_active >= Store[k].last_active]_vars

----------------------------------------------------------------------------
(* C18: when chat turns run at the same time on different sessions, every  *)
(* step of a turn changes the session of that turn only, and changes it as *)
(* the turn run alone does: the submitted messages are appended in order,  *)
(* then one assistant reply made from that session's own history; a turn   *)
(* that creates its session stores exactly its messages under a new        *)
(* identifier.                                                             *)

C18_TurnsOnDifferentSessionsAreIndependent ==
    [][\A t \in ThreadIds :
         threads'[t] # threads[t]
           => LET th == threads[t]
                  own == {th.session, threads'[t].session} \ {0}
              IN /\ \A k \in Ids :
                      GetItem(chat_sessions, k) \notin own
                        => k \in Ids' /\ Store'[k] = Store[k]
                 /\ \A u \in ThreadIds \ {t} :
                      threads[u].session # 0
                        => heap'[threads[u].session] = heap[threads[u].session]
                 /\ th.pc = "create" /\ threads'[t].pc = "bind"
                      => /\ threads'[t].key \notin Ids
                         /\ Ids' = Ids \cup {threads'[t].key}
                         /\ Store'[threads'[t].key].messages = th.messages
                 /\ th.pc = "extend"
                      => heap'[th.session].messages
                           = heap[th.session].messages \o th.messages
                 /\ th.pc = "reply" /\ threads'[t].pc = "return"
                      => LET h == heap[th.session].messages
                             reply == threads'[t].reply[1]
                         IN /\ heap'[th.session].messages = Append(h, reply)
                            /\ reply.role = "assistant"
                            /\ reply.content \in {"ok", Fallback(UserLast(h))}
                 /\ th.pc \in {"clock", "touch", "complete", "return"}
                      => heap'[th.session].messages = heap[th.session].messages]_vars

\* Two turns on two sessions have both appended their replies and neither has
\* returned; one reply is the fallback that echoes that session's own message.
C18_Witness ==
    \E t, u \in ThreadIds :
        /\ threads[t].pc = "return" /\ threads[u].pc = "return"
        /\ threads[t].session # threads[u].session
        /\ threads[t].reply[1].content = Fallback("a")
        /\ Len(heap[threads[t].session].messages) = 2
        /\ Len(heap[threads[u].session].messages) = 1

----------------------------------------------------------------------------
(* C19: whenever a chat turn returns a successful response naming session  *)
(* s, at that moment s is in the store and the returned reply is in s's    *)
(* stored history, whatever delete and cleanup requests ran meanwhile.     *)

C19_AnsweredTurnIsStored ==
    [][\A t \in ThreadIds :
         (threads[t].pc = "return" /\ threads'[t].pc = "idle")
           => LET s == heap[threads[t].session]
              IN /\ s.session_id \in Ids
                 /\ GetItem(chat_sessions, s.session_id) = threads[t].session
                 /\ \E i \in 1..Len(s.messages) : s.messages[i] = threads[t].reply[1]]_vars

----------------------------------------------------------------------------
(* C20: a sweep, which collects the expired identifiers and then deletes   *)
(* them one by one, ends without an error and reports only identifiers it  *)
(* removed itself, whatever delete and cleanup requests run meanwhile: it  *)
(* ends only once it has deleted every identifier it collected.            *)

C20_SweepCompletesWithoutError ==
    [][\A t \in ThreadIds :
         (threads[t].pc = "sweep" /\ threads'[t].pc = "idle")
           => threads[t].deleted = Len(threads[t].expired_sessions)]_vars

====
